---------------------------- MODULE Spec2Model ----------------------------
(***************************************************************************)
(* A model of push_news.py: one run of main() loads the state document,    *)
(* fetches the listing page, extracts the news items, selects the unseen   *)
(* ones, posts them to the webhook and, after a successful post, saves the *)
(* enlarged seen list.  Runs are started again and again by an external    *)
(* scheduler.                                                              *)
(*                                                                         *)
(* Python strings that hold ids are records [n, form]: form "canon" is the *)
(* decimal str(n); "padded" is another string that int() parses to n       *)
(* (for instance "07" for 7); "bad" is a string int() rejects.  A title is *)
(* a sequence of characters, each character a one-element name.            *)
(***************************************************************************)
EXTENDS Integers, Sequences, FiniteSets, TLC

\* ------------------------------------------------------------------ bounds
\* Ids of the small universe are 1..MaxId.
MaxId == 3
\* The initial state document lists at most MaxInitLen entries.
MaxInitLen == 2
\* TOP_N ranges over -1..MaxTopN, MAX_SEEN_IDS over -1..MaxSeenCap.
MaxTopN == 2
MaxSeenCap == 3
\* Where the last finished run is recorded, ids are 1..MaxRerunId.
MaxRerunId == 2
\* Processes that may run main(); the sequential scheduler uses the first.
NumProcs == 2
\* Where fetch_news is applied on its own: anchors of a document.
MaxAnchors == 3
\* Where normalize_title is applied on its own: characters of a title.
MaxTitleLen == 5
\* The small values of TITLE_MAX_LEN are 1..SmallTitleMax.
SmallTitleMax == 2

\* ----------------------------------------------------- program constants
\* os.getenv defaults of TOP_N, MAX_SEEN_IDS and TITLE_MAX_LEN.
DefaultTopN == 5
DefaultMaxSeenIds == 5000
DefaultTitleMaxLen == 46

Procs == 1..NumProcs

\* ----------------------------------------------------------- characters
Space == " "
Tab == "TAB"
FullStop == "FULLSTOP"
FullComma == "FULLCOMMA"
Ellipsis == "ELLIPSIS"
\* The two boilerplate substrings of line 80.
BoilerplateHub == <<"A", "I", "ZI", "XUN">>
BoilerplateLatest == <<"ZUI", "XIN", "ZI", "XUN">>

IsSpace(c) == c \in {Space, Tab}

\* ------------------------------------------------------ Python built-ins
Min(a, b) == IF a <= b THEN a ELSE b
Max(a, b) == IF a >= b THEN a ELSE b

\* s[:k], for any integer k.
Slice(s, k) ==
    IF k >= 0 THEN SubSeq(s, 1, Min(k, Len(s)))
    ELSE SubSeq(s, 1, Max(Len(s) + k, 0))

RECURSIVE LStrip(_)
LStrip(s) ==
    IF s # <<>> /\ IsSpace(Head(s)) THEN LStrip(Tail(s)) ELSE s

RECURSIVE RStrip(_)
RStrip(s) ==
    IF s # <<>> /\ IsSpace(s[Len(s)]) THEN RStrip(SubSeq(s, 1, Len(s) - 1))
    ELSE s

Strip(s) == RStrip(LStrip(s))

\* re.sub(r"\s+", " ", s)
RECURSIVE CollapseSpaces(_)
CollapseSpaces(s) ==
    IF s = <<>> THEN <<>>
    ELSE IF IsSpace(Head(s)) THEN <<Space>> \o CollapseSpaces(LStrip(Tail(s)))
    ELSE <<Head(s)>> \o CollapseSpaces(Tail(s))

\* c in s
HasChar(s, c) == \E i \in 1..Len(s) : s[i] = c

\* sub in s
HasSubstring(s, sub) ==
    \E i \in 1..(Len(s) - Len(sub) + 1) : SubSeq(s, i, i + Len(sub) - 1) = sub

\* s.split(c, 1)[0]
BeforeFirst(s, c) ==
    IF ~HasChar(s, c) THEN s
    ELSE LET i == CHOOSE j \in 1..Len(s) :
                      s[j] = c /\ \A k \in 1..(j - 1) : s[k] # c
         IN  SubSeq(s, 1, i - 1)

\* ---------------------------------------------------------- normalize_title
\* Lines 30-38 with the second and third if as elif: one truncation only.
NormalizeTitleOneOfThree(raw, maxLen) ==
    LET t0 == Strip(CollapseSpaces(raw))
    IN  IF Len(t0) <= maxLen THEN t0
        ELSE IF HasChar(t0, FullStop) THEN Strip(BeforeFirst(t0, FullStop))
        ELSE IF HasChar(t0, FullComma) THEN Strip(BeforeFirst(t0, FullComma))
        ELSE RStrip(Slice(t0, maxLen - 1)) \o <<Ellipsis>>

NormalizeTitle(raw, maxLen) ==
    LET t0 == Strip(CollapseSpaces(raw))
        t1 == IF HasChar(t0, FullStop) /\ Len(t0) > maxLen
              THEN Strip(BeforeFirst(t0, FullStop)) ELSE t0
        t2 == IF HasChar(t1, FullComma) /\ Len(t1) > maxLen
              THEN Strip(BeforeFirst(t1, FullComma)) ELSE t1
    IN  IF Len(t2) > maxLen
        THEN RStrip(Slice(t2, maxLen - 1)) \o <<Ellipsis>>
        ELSE t2

\* ---------------------------------------------------------------- fetch_news
\* An anchor of the page: href is the stripped href attribute, abstracted to
\* whether it matches NEWS_LINK_PATTERN and, if so, the digits it carries (the
\* number n, written with or without leading zeros); attr is the title
\* attribute (<<>> when absent or empty), text the visible text.
NoHref == [match |-> FALSE, n |-> 0, padded |-> FALSE]
Href(n, padded) == [match |-> TRUE, n |-> n, padded |-> padded]
Anchor(href, attr, text) == [href |-> href, attr |-> attr, text |-> text]

\* a.get("title") or a.get_text(" ", strip=True)
RawTitle(a) == IF a.attr # <<>> THEN a.attr ELSE a.text

\* Lines 78-81: the anchor is skipped.
Discarded(title) ==
    \/ title = <<>>
    \/ HasSubstring(title, BoilerplateHub)
    \/ HasSubstring(title, BoilerplateLatest)

\* Line 85 with <= in place of <: on a tie the later anchor wins.
ReplacesOnTie(title, byId, id) ==
    id \notin DOMAIN byId \/ Len(title) <= Len(byId[id].title)

\* Lines 84-86: whether the anchor replaces what latest_by_id holds.
Replaces(title, byId, id) ==
    id \notin DOMAIN byId \/ Len(title) < Len(byId[id].title)

\* The loop of lines 70-86 from anchor i on; byId is latest_by_id.
RECURSIVE ScanAnchors(_, _, _, _)
ScanAnchors(anchors, i, byId, maxLen) ==
    IF i > Len(anchors) THEN byId
    ELSE LET a == anchors[i]
             title == NormalizeTitle(RawTitle(a), maxLen)
             id == a.href.n
             entry == [title |-> title, url |-> a.href]
         IN  IF ~a.href.match \/ Discarded(title)
             THEN ScanAnchors(anchors, i + 1, byId, maxLen)
             ELSE IF Replaces(title, byId, id)
             THEN ScanAnchors(anchors, i + 1,
                      [k \in DOMAIN byId \cup {id} |->
                          IF k = id THEN entry ELSE byId[k]], maxLen)
             ELSE ScanAnchors(anchors, i + 1, byId, maxLen)

SetMax(S) == CHOOSE x \in S : \A y \in S : y <= x

\* Line 89 without reverse=True: by id ascending.
RECURSIVE ItemsAscending(_)
ItemsAscending(byId) ==
    IF DOMAIN byId = {} THEN <<>>
    ELSE LET m == SetMax(DOMAIN byId)
         IN  ItemsAscending([k \in DOMAIN byId \ {m} |-> byId[k]])
             \o <<[id |-> m, title |-> byId[m].title, url |-> byId[m].url]>>

\* Lines 88-89: the items of latest_by_id, by id descending.
RECURSIVE ItemsDescending(_)
ItemsDescending(byId) ==
    IF DOMAIN byId = {} THEN <<>>
    ELSE LET m == SetMax(DOMAIN byId)
         IN  <<[id |-> m, title |-> byId[m].title, url |-> byId[m].url]>>
             \o ItemsDescending([k \in DOMAIN byId \ {m} |-> byId[k]])

ExtractItems(anchors, maxLen) ==
    ItemsDescending(ScanAnchors(anchors, 1, << >>, maxLen))

\* fetch_news on a response to requests.get (the call raises, or returns a
\* status and a document with these anchors): the items, or raised (the transport call or raise_for_status).
FetchNews(resp, maxLen) ==
    IF resp.transport # "ok" \/ resp.status >= 400
    THEN [raised |-> TRUE, items |-> <<>>]
    ELSE [raised |-> FALSE, items |-> ExtractItems(resp.anchors, maxLen)]


\* --------------------------------------------------------------- id strings
\* str(news_id) of an integer id.
StrOfId(id) == [n |-> id, form |-> "canon"]
\* A string such as "None" or "abc".
BadStr == [n |-> 0, form |-> "bad"]

\* An entry of the seen_ids array of the document: a JSON integer, a JSON
\* string, or another JSON value (null).
IntEntry(n) == [json |-> "int", n |-> n, form |-> "canon"]
StrEntry(s) == [json |-> "str", n |-> s.n, form |-> s.form]
NullEntry == [json |-> "null", n |-> 0, form |-> "bad"]

\* str(x) of line 150.
StrOf(e) ==
    IF e.json = "int" THEN StrOfId(e.n)
    ELSE IF e.json = "str" THEN [n |-> e.n, form |-> e.form]
    ELSE BadStr

\* int(s) of line 179 raises ValueError.
IntRaises(s) == s.form = "bad"
\* int(s) otherwise.
IntOf(s) == s.n

\* ------------------------------------------------------------- state store
\* The state document on disk.  kind: "absent" (no file), "unreadable"
\* (open() raises OSError), "invalid" (not JSON), "nonobject" (JSON, not an
\* object), "object".  For an object, field says what seen_ids is: "missing",
\* "notlist" or "list" (then ids is the array); other is the set of its other
\* fields.
PlainDoc(kind) == [kind |-> kind, field |-> "missing", ids |-> <<>>, other |-> {}]
ObjectDoc(field, ids, other) ==
    [kind |-> "object", field |-> field, ids |-> ids, other |-> other]

\* load_state returning a fresh dict with seen_ids only.
LoadStateSeenOnly(doc) ==
    IF doc.kind # "object" \/ doc.field # "list"
    THEN [seen_ids |-> <<>>, other |-> {}]
    ELSE [seen_ids |-> doc.ids, other |-> {}]

\* load_state: the dict it returns.
LoadState(doc) ==
    IF doc.kind # "object" THEN [seen_ids |-> <<>>, other |-> {}]
    ELSE IF doc.field # "list" THEN [seen_ids |-> <<>>, other |-> doc.other]
    ELSE [seen_ids |-> doc.ids, other |-> doc.other]

\* json.dump of the dict: seen_ids is a list of Python strings by then.
DumpState(state) ==
    ObjectDoc("list", [i \in 1..Len(state.seen_ids) |-> StrEntry(state.seen_ids[i])],
              state.other)

\* Line 150: {str(x) for x in state.get("seen_ids", [])}
SeenIdsOf(state) == {StrOf(state.seen_ids[i]) : i \in 1..Len(state.seen_ids)}

\* ------------------------------------------------------------------ select
\* Line 164 with item[0] in place of str(item[0]): an integer is never equal
\* to a string of the set.
NewItemsWithoutStr(items, seen) == items

\* Line 164: the items whose str(id) is not in seen_ids, order kept.
RECURSIVE NewItems(_, _)
NewItems(items, seen) ==
    IF items = <<>> THEN <<>>
    ELSE IF StrOfId(Head(items).id) \notin seen
    THEN <<Head(items)>> \o NewItems(Tail(items), seen)
    ELSE NewItems(Tail(items), seen)

\* Line 169 without the cut.
SelectedWithoutCut(newItems, topN) == newItems

\* Line 169: new_items[:TOP_N]
Selected(newItems, topN) == Slice(newItems, topN)

\* ----------------------------------------------------------------- format
\* build_message: one line per item, title and url (idx 0: not numbered).
BuildMessage(items) ==
    [i \in 1..Len(items) |->
        [idx |-> 0, title |-> items[i].title, url |-> items[i].url]]

\* build_post_payload: one numbered line per item.
BuildPostPayload(items) ==
    [msg_type |-> "post",
     lines |-> [i \in 1..Len(items) |->
                   [idx |-> i, title |-> items[i].title, url |-> items[i].url]]]

\* Lines 124-127.
Payload(style, items) ==
    IF style = "text"
    THEN [msg_type |-> "text", lines |-> BuildMessage(items)]
    ELSE BuildPostPayload(items)

\* ----------------------------------------------------------------- deliver
\* A response of the webhook: the transport call raises or not; the HTTP
\* status; the body: "notjson", or a JSON object with code 0 ("code0"), with
\* another code ("code1") or without the field ("nocode").
WebhookResponses ==
    {[transport |-> "raise", status |-> 0, body |-> "none"]}
    \cup [transport : {"ok"}, status : {200, 500},
          body : {"notjson", "code0", "code1", "nocode"}]

\* post_to_feishu without the check of line 135.
PostRaisesWithoutCodeCheck(resp) ==
    \/ resp.transport # "ok"
    \/ resp.status >= 400
    \/ resp.body = "notjson"

\* post_to_feishu, lines 129-136: TRUE when it raises (requests.post,
\* raise_for_status, resp.json(), data.get("code") != 0).
PostRaises(resp) ==
    \/ resp.transport # "ok"
    \/ resp.status >= 400
    \/ resp.body = "notjson"
    \/ resp.body \in {"code1", "nocode"}

\* ------------------------------------------------------------ update state
\* Lines 177-178 adding only the first id of the batch.
AddSelectedFirstOnly(seen, selected) ==
    seen \cup {StrOfId(selected[i].id) : i \in 1..Min(1, Len(selected))}

\* Lines 177-178.
AddSelected(seen, selected) ==
    seen \cup {StrOfId(selected[i].id) : i \in 1..Len(selected)}

\* sorted(seen_ids, key=int, reverse=True) raises ValueError.
SortRaises(seen) == \E s \in seen : IntRaises(s)

\* sorted(seen_ids, key=int, reverse=True): the set is iterated in hash
\* order, so strings with equal keys come out in either order.
RECURSIVE SortedDescending(_)
SortedDescending(seen) ==
    IF seen = {} THEN {<<>>}
    ELSE LET m == SetMax({IntOf(s) : s \in seen})
             tops == {s \in seen : IntOf(s) = m}
         IN  UNION {{<<s>> \o r : r \in SortedDescending(seen \ {s})} : s \in tops}

\* Line 179: the lists state["seen_ids"] may become.
NewSeenLists(seen, maxSeen) == {Slice(order, maxSeen) : order \in SortedDescending(seen)}


\* ------------------------------------------------------------- environment
\* Ids of a set, ascending.
RECURSIVE Ascending(_)
Ascending(S) ==
    IF S = {} THEN <<>>
    ELSE LET m == SetMax(S) IN Ascending(S \ {m}) \o <<m>>

\* A listing page showing the ids of S, oldest first.  A noisy page also has
\* a navigation link, a section header on a news href, and for every id a
\* second link with a longer text.
PageOf(S, noisy) ==
    LET ids == Ascending(S)
        plain == [i \in 1..Len(ids) |-> Anchor(Href(ids[i], FALSE), <<>>, <<"a">>)]
        long == [i \in 1..Len(ids) |->
                    Anchor(Href(ids[i], FALSE), <<>>, <<"a", Space, Space, "b">>)]
        nav == <<Anchor(NoHref, <<>>, <<"a">>),
                 Anchor(Href(1, FALSE), <<>>, BoilerplateHub)>>
    IN  IF noisy THEN nav \o long \o plain ELSE plain

\* What requests.get may answer when the site carries ids of U.
ListingResponses(U) ==
    {[transport |-> "raise", status |-> 0, anchors |-> <<>>],
     [transport |-> "ok", status |-> 500, anchors |-> <<>>]}
    \cup {[transport |-> "ok", status |-> 200, anchors |-> PageOf(S, noisy)] :
             S \in SUBSET U, noisy \in BOOLEAN}

\* The entries of a set in a fixed order: by number, an integer before a
\* string.
EntryRank(e) == 2 * e.n + (IF e.json = "int" THEN 0 ELSE 1)

RECURSIVE EntryList(_)
EntryList(S) ==
    IF S = {} THEN <<>>
    ELSE LET e == CHOOSE x \in S : \A y \in S : EntryRank(x) <= EntryRank(y)
         IN  <<e>> \o EntryList(S \ {e})

\* Entries a state document may list: integers, strings int() accepts that
\* are not the decimal form, and values int(str()) rejects.
InitEntries(U) ==
    {IntEntry(n) : n \in U}
    \cup {StrEntry([n |-> n, form |-> "padded"]) : n \in U}
    \cup {NullEntry}

\* The state documents a first run may find.
InitDocs(U) ==
    {PlainDoc(k) : k \in {"absent", "unreadable", "invalid", "nonobject"}}
    \cup {ObjectDoc("missing", <<>>, {"note"}), ObjectDoc("notlist", <<>>, {"note"})}
    \cup {ObjectDoc("list", EntryList(S), {"note"}) :
             S \in {T \in SUBSET InitEntries(U) : Cardinality(T) <= MaxInitLen}}

\* The environment variables: FEISHU_WEBHOOK is "unset", "blank" (only
\* whitespace) or a url.
Config(webhook, top_n, max_seen, style) ==
    [webhook |-> webhook, top_n |-> top_n, max_seen |-> max_seen,
     style |-> style, title_max |-> DefaultTitleMaxLen]

\* Every TOP_N with every MAX_SEEN_IDS; the webhook unset or blank and the
\* text style with every TOP_N.
Configs ==
    {Config("hook", t, m, "post") : t \in 0..MaxTopN, m \in (-1)..MaxSeenCap}
    \cup {Config(w, t, MaxSeenCap, "post") :
              w \in {"unset", "blank"}, t \in (-1)..MaxTopN}
    \cup {Config("hook", t, MaxSeenCap, "text") : t \in (-1)..MaxTopN}

\* Line 140 without the strip(): a blank FEISHU_WEBHOOK counts as set.
WebhookOfWithoutStrip(c) == IF c.webhook = "unset" THEN "" ELSE c.webhook

\* os.getenv("FEISHU_WEBHOOK", "").strip()
WebhookOf(c) == IF c.webhook \in {"unset", "blank"} THEN "" ELSE c.webhook

\* ------------------------------------------------------------------- state
VARIABLES
    input,      \* a function applied on its own: its argument and result
    cfg,        \* the configuration, the same in every run
    universe,   \* the ids the site may list
    file,       \* the state document (STATE_FILE)
    run,        \* per process: where main() is and its local variables
    history,    \* what is recorded: "none", "pushes" (pushed, ever) or "last"
    pushed,     \* ids of the batches post_to_feishu returned for
    ever,       \* ids ever put into a seen set (loaded or added)
    last        \* the last finished run

vars == <<input, cfg, universe, file, run, history, pushed, ever, last>>

\* No function is applied on its own.
NoInput == [fn |-> "none", arg |-> <<>>, max |-> 0, out |-> <<>>, done |-> FALSE]

NoPayload == [msg_type |-> "none", lines |-> <<>>]
NoResponse == [transport |-> "none", status |-> 0, body |-> "none"]

\* A process not running.  Besides pc and the locals of main(), a run counts
\* its reads of the document (loads), its requests to the site (fetches) and
\* to the webhook (posts), its writes of the document (writes), and keeps the
\* document it started with (before), the number of unseen items it found
\* (unseen), the payload it sent (sent) and the webhook's response (resp).
IdleRun ==
    [pc |-> "idle", state |-> [seen_ids |-> <<>>, other |-> {}], seen_ids |-> {},
     all_items |-> <<>>, selected |-> <<>>, result |-> "none", code |-> -1,
     before |-> PlainDoc("absent"), loads |-> 0, fetches |-> 0, posts |-> 0,
     writes |-> 0, unseen |-> 0, sent |-> NoPayload, resp |-> NoResponse]

\* What last keeps of a finished run: its outcome, its extracted list and
\* batch, the document it started with, its number of unseen items and the
\* size of its seen set at the end.
Summary(r) ==
    [result |-> r.result, code |-> r.code, all_items |-> r.all_items,
     selected |-> r.selected, before |-> r.before, unseen |-> r.unseen,
     seen_count |-> Cardinality(r.seen_ids)]

NoRun == Summary(IdleRun)

\* return code / uncaught exception: the process is over.
Exit(r, result, code) == [r EXCEPT !.pc = "exit", !.result = result, !.code = code]

IdsOf(items) == {items[i].id : i \in 1..Len(items)}

\* The numbers of the strings int() accepts.
NumbersOf(seen) == {IntOf(s) : s \in {t \in seen : ~IntRaises(t)}}

\* Lines 140-150 with the check of line 145 as TOP_N < 0.
StartTopNStrict(p) ==
    /\ run[p].pc = "idle"
    /\ LET r == [IdleRun EXCEPT !.before = file]
           state == LoadState(file)
       IN
       /\ run' = [run EXCEPT ![p] =
                IF WebhookOf(cfg) = "" THEN Exit(r, "no_webhook", 1)
                ELSE IF cfg.top_n < 0 THEN Exit(r, "top_n", 0)
                ELSE [r EXCEPT !.pc = "loaded", !.state = state,
                               !.seen_ids = SeenIdsOf(state), !.loads = 1]]
       /\ ever' = IF history = "pushes" /\ WebhookOf(cfg) # "" /\ cfg.top_n >= 0
                  THEN ever \cup NumbersOf(SeenIdsOf(state)) ELSE ever
    /\ UNCHANGED <<input, cfg, universe, file, history, pushed, last>>

\* Lines 140-150: configuration checks, load_state, the seen set.
Start(p) ==
    /\ run[p].pc = "idle"
    /\ LET r == [IdleRun EXCEPT !.before = file]
           state == LoadState(file)
       IN
       /\ run' = [run EXCEPT ![p] =
                IF WebhookOf(cfg) = "" THEN Exit(r, "no_webhook", 1)
                ELSE IF cfg.top_n <= 0 THEN Exit(r, "top_n", 0)
                ELSE [r EXCEPT !.pc = "loaded", !.state = state,
                               !.seen_ids = SeenIdsOf(state), !.loads = 1]]
       /\ ever' = IF history = "pushes" /\ WebhookOf(cfg) # "" /\ cfg.top_n > 0
                  THEN ever \cup NumbersOf(SeenIdsOf(state)) ELSE ever
    /\ UNCHANGED <<input, cfg, universe, file, history, pushed, last>>

\* Lines 152-162 without the check of line 157.
FetchOutcomeWithoutZeroCheck(f) ==
    IF f.raised THEN "fetch_error" ELSE "ok"

\* Lines 152-162: what becomes of the result of fetch_news.
FetchOutcome(f) ==
    IF f.raised THEN "fetch_error"
    ELSE IF f.items = <<>> THEN "zero_items"
    ELSE "ok"

\* Lines 152-162: fetch_news and the check for zero items.
Fetch(p) ==
    /\ run[p].pc = "loaded"
    /\ \E resp \in ListingResponses(universe) :
         LET f == FetchNews(resp, cfg.title_max)
             r == [run[p] EXCEPT !.fetches = @ + 1, !.all_items = f.items]
         IN  run' = [run EXCEPT ![p] =
                  IF FetchOutcome(f) = "ok" THEN [r EXCEPT !.pc = "fetched"]
                  ELSE Exit(r, FetchOutcome(f), 1)]
    /\ UNCHANGED <<input, cfg, universe, file, history, pushed, ever, last>>

\* Lines 164-169: the unseen items and the batch.
Select(p) ==
    /\ run[p].pc = "fetched"
    /\ LET new_items == NewItems(run[p].all_items, run[p].seen_ids)
       IN  run' = [run EXCEPT ![p] =
                IF new_items = <<>> THEN Exit(@, "nothing_new", 0)
                ELSE [@ EXCEPT !.pc = "selected", !.unseen = Len(new_items),
                               !.selected = Selected(new_items, cfg.top_n)]]
    /\ UNCHANGED <<input, cfg, universe, file, history, pushed, ever, last>>

\* Lines 171-180 with the seen list saved before post_to_feishu is called.
PostAfterSaving(p) ==
    /\ run[p].pc = "selected"
    /\ \E resp \in WebhookResponses :
         LET seen == AddSelected(run[p].seen_ids, run[p].selected)
             r == [run[p] EXCEPT !.posts = @ + 1, !.resp = resp,
                                 !.sent = Payload(cfg.style, run[p].selected)]
         IN  /\ IF SortRaises(seen)
                THEN /\ file' = file
                     /\ run' = [run EXCEPT ![p] = Exit(r, "crashed", 1)]
                ELSE \E ids \in NewSeenLists(seen, cfg.max_seen) :
                       /\ file' = DumpState([run[p].state EXCEPT !.seen_ids = ids])
                       /\ run' = [run EXCEPT ![p] =
                              IF PostRaises(resp)
                              THEN Exit([r EXCEPT !.writes = @ + 1], "post_failed", 1)
                              ELSE [r EXCEPT !.writes = @ + 1, !.pc = "posted"]]
             /\ pushed' = pushed
    /\ UNCHANGED <<input, cfg, universe, history, ever, last>>

\* Lines 171-175: post_to_feishu.
Post(p) ==
    /\ run[p].pc = "selected"
    /\ \E resp \in WebhookResponses :
         LET r == [run[p] EXCEPT !.posts = @ + 1, !.resp = resp,
                                 !.sent = Payload(cfg.style, run[p].selected)]
         IN  IF PostRaises(resp)
             THEN /\ run' = [run EXCEPT ![p] = Exit(r, "post_failed", 1)]
                  /\ pushed' = pushed
             ELSE /\ run' = [run EXCEPT ![p] = [r EXCEPT !.pc = "posted"]]
                  /\ pushed' = IF history = "pushes" THEN pushed \cup IdsOf(run[p].selected)
                                ELSE pushed
    /\ UNCHANGED <<input, cfg, universe, file, history, ever, last>>

\* save_state on the document: open("w") of a path open("r") failed on may
\* fail too (a directory) or not (a file that is only writable).
WriteMayRaise(doc) == doc.kind = "unreadable"

\* Lines 177-182 with the document read again before it is written: the
\* ids it holds by then join the seen set too.
SaveMerging(p) ==
    /\ run[p].pc = "posted"
    /\ LET seen == AddSelected(run[p].seen_ids \cup SeenIdsOf(LoadState(file)),
                               run[p].selected)
           crashed == [run EXCEPT ![p] = Exit([@ EXCEPT !.seen_ids = seen], "crashed", 1)]
       IN
       /\ IF SortRaises(seen)
           THEN run' = crashed /\ file' = file
           ELSE \E ids \in NewSeenLists(seen, cfg.max_seen) :
                  LET state == [run[p].state EXCEPT !.seen_ids = ids]
                  IN  \/ /\ WriteMayRaise(file)
                         /\ run' = crashed
                         /\ file' = file
                      \/ /\ file' = DumpState(state)
                         /\ run' = [run EXCEPT ![p] =
                                Exit([@ EXCEPT !.seen_ids = seen, !.state = state,
                                               !.writes = @ + 1], "pushed", 0)]
       /\ ever' = IF history = "pushes" THEN ever \cup NumbersOf(seen) ELSE ever
    /\ UNCHANGED <<input, cfg, universe, history, pushed, last>>

\* Lines 177-182: the selected ids join the seen set, the list is sorted and
\* cut, the document is written.
Save(p) ==
    /\ run[p].pc = "posted"
    /\ LET seen == AddSelected(run[p].seen_ids, run[p].selected)
           crashed == [run EXCEPT ![p] = Exit([@ EXCEPT !.seen_ids = seen], "crashed", 1)]
       IN
       /\ IF SortRaises(seen)
           THEN run' = crashed /\ file' = file
           ELSE \E ids \in NewSeenLists(seen, cfg.max_seen) :
                  LET state == [run[p].state EXCEPT !.seen_ids = ids]
                  IN  \/ /\ WriteMayRaise(file)
                         /\ run' = crashed
                         /\ file' = file
                      \/ /\ file' = DumpState(state)
                         /\ run' = [run EXCEPT ![p] =
                                Exit([@ EXCEPT !.seen_ids = seen, !.state = state,
                                               !.writes = @ + 1], "pushed", 0)]
       /\ ever' = IF history = "pushes" THEN ever \cup NumbersOf(seen) ELSE ever
    /\ UNCHANGED <<input, cfg, universe, history, pushed, last>>

\* The process is over; the scheduler may start the next run.
Finish(p) ==
    /\ run[p].pc = "exit"
    /\ last' = IF history = "last"
               THEN Summary(run[p]) ELSE last
    /\ run' = [run EXCEPT ![p] = IdleRun]
    /\ UNCHANGED <<input, cfg, universe, file, history, pushed, ever>>

\* ----------------------------------------------------------- specification
\* The scheduler runs main() again and again, one run at a time: it uses
\* one process, the first.
Main == CHOOSE p \in Procs : \A q \in Procs : p <= q

InitWith(h, U) ==
    /\ input = NoInput
    /\ cfg \in Configs
    /\ universe = U
    /\ file \in InitDocs(universe)
    /\ run = [p \in Procs |-> IdleRun]
    /\ history = h
    /\ pushed = {}
    /\ ever = {}
    /\ last = NoRun

Init == InitWith("none", 1..MaxId)

Next ==
    \/ Start(Main)
    \/ Fetch(Main)
    \/ Select(Main)
    \/ Post(Main)
    \/ Save(Main)
    \/ Finish(Main)

Spec == Init /\ [][Next]_vars

\* The end-to-end scenario of the specification: no state document, ids
\* 100..107 on the site, TOP_N and MAX_SEEN_IDS at their defaults.
ScenarioIds == 100..107

InitScenario ==
    /\ input = NoInput
    /\ cfg = Config("hook", DefaultTopN, DefaultMaxSeenIds, "post")
    /\ universe = ScenarioIds
    /\ file = PlainDoc("absent")
    /\ run = [p \in Procs |-> IdleRun]
    /\ history = "none"
    /\ pushed = {}
    /\ ever = {}
    /\ last = NoRun

\* The runs of Spec and the runs of the scenario.
SpecBatch == (Init \/ InitScenario) /\ [][Next]_vars

\* The same runs, with the ids pushed and put into the seen set recorded.
InitPushes == InitWith("pushes", 1..MaxId)

SpecPushes == InitPushes /\ [][Next]_vars

\* The same runs, with the last finished run recorded.
InitLast == InitWith("last", 1..MaxRerunId)

SpecLast == InitLast /\ [][Next]_vars

\* requests.get answered 200 with a page that yields items.
FetchListed(p) == Fetch(p) /\ run'[p].pc = "fetched"

\* The webhook acknowledged the batch.
PostAccepted(p) == Post(p) /\ run'[p].pc = "posted"

\* Runs that overlap: nothing in main() keeps a process from starting while
\* another is between load_state and save_state.  Every process runs main()
\* once, their steps interleaved in any order; the site carries two ids,
\* the webhook is set, TOP_N is positive, every fetch yields items and every
\* delivery is acknowledged.
InitOverlap ==
    /\ input = NoInput
    /\ cfg \in {Config("hook", t, MaxSeenCap, "post") : t \in 1..MaxTopN}
    /\ universe = {1, 2}
    /\ file \in {PlainDoc("absent"), PlainDoc("invalid")}
               \cup {ObjectDoc("list", EntryList({IntEntry(n) : n \in S}), {"note"}) :
                        S \in SUBSET universe}
    /\ run = [p \in Procs |-> IdleRun]
    /\ history = "none"
    /\ pushed = {}
    /\ ever = {}
    /\ last = NoRun

NextOverlap ==
    \E p \in Procs :
        \/ Start(p)
        \/ FetchListed(p)
        \/ Select(p)
        \/ PostAccepted(p)
        \/ Save(p)

SpecOverlap == InitOverlap /\ [][NextOverlap]_vars

\* requests.get answered 200 with the page that lists every id of the site.
FetchUnchanged(p) == FetchListed(p) /\ IdsOf(run'[p].all_items) = universe

\* The backlog: the site lists the same ids (at least one) in every run,
\* every delivery is acknowledged, one run at a time; the ids pushed and put
\* into the seen set are recorded.
InitDrain ==
    /\ input = NoInput
    /\ cfg \in Configs
    /\ universe \in (SUBSET (1..MaxId)) \ {{}}
    /\ file \in InitDocs(1..MaxId)
    /\ run = [p \in Procs |-> IdleRun]
    /\ history = "pushes"
    /\ pushed = {}
    /\ ever = {}
    /\ last = NoRun

NextDrain ==
    \/ Start(Main)
    \/ FetchUnchanged(Main)
    \/ Select(Main)
    \/ PostAccepted(Main)
    \/ Save(Main)
    \/ Finish(Main)

SpecDrain == InitDrain /\ [][NextDrain]_vars

\* ------------------------------------------- the pure functions on their own
\* Nothing runs main(): the other variables stay as they are.
NoRuns ==
    /\ cfg = Config("hook", DefaultTopN, DefaultMaxSeenIds, "post")
    /\ universe = {}
    /\ file = PlainDoc("absent")
    /\ run = [p \in Procs |-> IdleRun]
    /\ history = "none"
    /\ pushed = {}
    /\ ever = {}
    /\ last = NoRun

\* The values of TITLE_MAX_LEN: a small one and the default.
TitleMaxs == {SmallTitleMax, DefaultTitleMaxLen}

\* The sequences over S of length at most n.
SeqsUpTo(S, n) == UNION {[1..k -> S] : k \in 0..n}

\* "Short" and "Short and much longer variant".
ShortTitle == <<"S", "h", "o", "r", "t">>
LongTitle ==
    ShortTitle \o <<Space, "a", "n", "d", Space, "m", "u", "c", "h", Space,
                    "l", "o", "n", "g", "e", "r", Space,
                    "v", "a", "r", "i", "a", "n", "t">>

\* The anchors of the documents: no news href, two ids, the second also
\* written with leading zeros; titles of one character (two of them), a
\* title attribute of three characters over a text of one, a section header
\* and a text of whitespace only.
PageAnchors ==
    {Anchor(h, t[1], t[2]) :
        h \in {NoHref, Href(1, FALSE), Href(2, FALSE), Href(2, TRUE)},
        t \in {<< <<>>, <<"a">> >>, << <<>>, <<"b">> >>,
                << <<"a", "b", "c">>, <<"a">> >>,
                << <<>>, BoilerplateHub >>, << <<>>, <<Space, Tab>> >>}}

\* The documents fetch_news is applied to: every sequence of at most
\* MaxAnchors anchors, and one id under the short and the long title in
\* either order.
Pages ==
    SeqsUpTo(PageAnchors, MaxAnchors)
    \cup {<<Anchor(Href(1, FALSE), <<>>, ShortTitle),
             Anchor(Href(1, FALSE), <<>>, LongTitle)>>,
           <<Anchor(Href(1, FALSE), <<>>, LongTitle),
             Anchor(Href(1, FALSE), <<>>, ShortTitle)>>}

InitExtract ==
    /\ input \in {[fn |-> "fetch_news", arg |-> a, max |-> m, out |-> <<>>,
                    done |-> FALSE] : a \in Pages, m \in TitleMaxs}
    /\ NoRuns

\* fetch_news(url) on a response 200 with the document input.arg.
ApplyFetchNews ==
    /\ input.fn = "fetch_news"
    /\ ~input.done
    /\ LET f == FetchNews([transport |-> "ok", status |-> 200,
                           anchors |-> input.arg], input.max)
       IN  /\ ~f.raised
           /\ input' = [input EXCEPT !.out = f.items, !.done = TRUE]
    /\ UNCHANGED <<cfg, universe, file, run, history, pushed, ever, last>>

SpecExtract == InitExtract /\ [][ApplyFetchNews]_vars

\* The characters of the titles normalize_title is applied to.
TitleChars == {"a", Space, Tab, FullStop, FullComma}

\* A title of six characters, a full-width period, eight characters, a
\* full-width comma and six characters.
ExampleTitle ==
    <<"a", "a", "a", "a", "a", "a", FullStop>>
    \o <<"b", "b", "b", "b", "b", "b", "b", "b", FullComma>>
    \o <<"c", "c", "c", "c", "c", "c">>

InitTitle ==
    /\ input \in
          {[fn |-> "normalize_title", arg |-> t, max |-> m, out |-> <<>>,
            done |-> FALSE] : t \in SeqsUpTo(TitleChars, MaxTitleLen),
                              m \in 1..SmallTitleMax}
          \cup {[fn |-> "normalize_title", arg |-> ExampleTitle, max |-> 10,
                  out |-> <<>>, done |-> FALSE]}
    /\ NoRuns

\* normalize_title(input.arg, input.max)
ApplyNormalizeTitle ==
    /\ input.fn = "normalize_title"
    /\ ~input.done
    /\ input' = [input EXCEPT !.out = NormalizeTitle(input.arg, input.max),
                              !.done = TRUE]
    /\ UNCHANGED <<cfg, universe, file, run, history, pushed, ever, last>>

SpecTitle == InitTitle /\ [][ApplyNormalizeTitle]_vars


\* ------------------------------------------------------------------ claims
\* The reasons a delivery fails: the transport call raises, the status is
\* not a success, the body is not JSON, the code of the acknowledgement is
\* not 0 (or is not there).
DeliveryFailed(resp) ==
    \/ resp.transport = "raise"
    \/ resp.status \notin 200..399
    \/ resp.body \notin {"code0", "code1", "nocode"}
    \/ resp.body # "code0"

\* A run in which main() has got past the selection of line 164-169.
PastSelect(p) ==
    /\ run[p].pc \in {"selected", "posted", "exit"}
    /\ run[p].fetches = 1
    /\ run[p].all_items # <<>>

\* The ids of the lines of the payload a run sent, in order.
SentIds(p) == [i \in 1..Len(run[p].sent.lines) |-> run[p].sent.lines[i].url.n]

\* The numbers of the seen_ids array of a document, in order.
NumbersIn(doc) == [i \in 1..Len(doc.ids) |-> IntOf(StrOf(doc.ids[i]))]

\* The k largest numbers of S (all of S when it has no more than k).
LargestOf(S, k) == {x \in S : Cardinality({y \in S : y > x}) < k}

StrictlyDescending(ns) == \A i, j \in 1..Len(ns) : i < j => ns[i] > ns[j]

\* The ids of a list the seen set loaded from a document does not hold.
LoadedSeen(doc) == SeenIdsOf(LoadState(doc))

\* C1: across runs that do not overlap, an id that was in a batch
\* post_to_feishu succeeded for is in no batch a later run sends.
NeverPushedTwice ==
    \A p \in Procs :
        run[p].pc = "selected" => IdsOf(run[p].selected) \cap pushed = {}

\* C2: when the delivery fails (for any of the four reasons) the run ends
\* with exit code 1, the state document is the document the run started
\* with, and none of the selected ids is marked as seen.
DeliveryFailureKeepsState ==
    \A p \in Procs :
        (run[p].posts > 0 /\ DeliveryFailed(run[p].resp)) =>
            /\ run[p].pc = "exit"
            /\ run[p].code = 1
            /\ run[p].writes = 0
            /\ file = run[p].before
            /\ \A id \in IdsOf(run[p].selected) : StrOfId(id) \notin LoadedSeen(file)

\* A run whose post was answered 200 with a code that is not 0, on a state
\* document that lists ids.
DeliveryFailureReached ==
    \E p \in Procs :
        /\ run[p].pc = "exit"
        /\ run[p].resp = [transport |-> "ok", status |-> 200, body |-> "code1"]
        /\ run[p].before.kind = "object"
        /\ run[p].before.ids # <<>>
        /\ Len(run[p].selected) = 2

\* C3: a run writes the state document at most once, and only after its
\* post_to_feishu returned; on every other path (no webhook, TOP_N <= 0,
\* fetch failure, zero items, nothing new, delivery failure) it writes
\* nothing and the document stays as it was.
SaveOnlyAfterPost ==
    \A p \in Procs :
        /\ run[p].writes <= 1
        /\ run[p].writes = 1 =>
              /\ run[p].posts = 1
              /\ ~DeliveryFailed(run[p].resp)
              /\ run[p].pc = "exit"
        /\ run[p].result \in {"no_webhook", "top_n", "fetch_error", "zero_items",
                              "nothing_new", "post_failed"} =>
              run[p].writes = 0 /\ file = run[p].before
        /\ (run[p].pc # "idle" /\ file # run[p].before) => run[p].writes = 1

\* A run that posted, was acknowledged and wrote a new document.
SaveAfterPostReached ==
    \E p \in Procs :
        /\ run[p].result = "pushed"
        /\ run[p].writes = 1
        /\ run[p].posts = 1
        /\ file # run[p].before

\* The second of two runs in succession that extracted the same list, the
\* first having succeeded (exit code 0 after a fetch).
RerunOfSuccess(p) ==
    /\ last.result \in {"pushed", "nothing_new"}
    /\ PastSelect(p)
    /\ run[p].all_items = last.all_items

\* The first run left no item of the list unseen: it found nothing new, or
\* its batch held every unseen item and MAX_SEEN_IDS cut nothing off the
\* seen list it saved.
LeftNothingUnseen ==
    \/ last.result = "nothing_new"
    \/ /\ last.result = "pushed"
       /\ last.unseen <= cfg.top_n
       /\ last.seen_count <= cfg.max_seen

\* C4 as stated: the second of two runs in succession on an unchanged
\* listing page, the first having succeeded, selects nothing and ends with
\* "No new items found".
RerunDeliversNothing ==
    \A p \in Procs :
        RerunOfSuccess(p) =>
            /\ run[p].selected = <<>>
            /\ run[p].result = "nothing_new"
            /\ run[p].posts = 0

\* C4: the second of two runs in succession on an unchanged listing page
\* selects nothing and ends with "No new items found" when the first run
\* left no item of the list unseen (at most TOP_N unseen items, no cut by
\* MAX_SEEN_IDS).
RerunDeliversNothingOnceAllSeen ==
    \A p \in Procs :
        (RerunOfSuccess(p) /\ LeftNothingUnseen) =>
            /\ run[p].selected = <<>>
            /\ run[p].result = "nothing_new"
            /\ run[p].code = 0
            /\ run[p].posts = 0

\* A second run that found nothing new after a first run that pushed two
\* items of the same list.
RerunAfterPushReached ==
    \E p \in Procs :
        /\ last.result = "pushed"
        /\ Len(last.selected) = 2
        /\ LeftNothingUnseen
        /\ RerunOfSuccess(p)
        /\ run[p].result = "nothing_new"

\* C5: after a run that added ids, the saved seen_ids has at most
\* MAX_SEEN_IDS entries, is strictly descending in numeric order, and holds
\* exactly the largest ids ever put into the seen set.
SeenListIsLargestDescending ==
    \A p \in Procs :
        run[p].result = "pushed" =>
            /\ Len(file.ids) <= cfg.max_seen
            /\ StrictlyDescending(NumbersIn(file))
            /\ {NumbersIn(file)[i] : i \in 1..Len(file.ids)}
                   = LargestOf(ever, cfg.max_seen)

\* C6: whatever the state document holds, a run does not abort because of
\* it: once the webhook acknowledged the batch the run saves the state and
\* ends with exit code 0.
MalformedStateNeverFatal ==
    \A p \in Procs :
        /\ run[p].result # "crashed"
        /\ (run[p].pc = "exit" /\ run[p].posts = 1 /\ ~DeliveryFailed(run[p].resp)) =>
              /\ run[p].result = "pushed"
              /\ run[p].code = 0
              /\ run[p].writes = 1

\* C7: the batch a run sends is the first min(TOP_N, number of unseen items)
\* items of the extracted list whose id is not in the seen set loaded from
\* the document, in descending order of id, never empty and never more than
\* TOP_N; with no state document, ids 100..107 extracted and TOP_N = 5 the
\* batch is 107, 106, 105, 104, 103 and so is the saved seen_ids.
BatchIsFirstUnseen ==
    \A p \in Procs :
        run[p].posts > 0 =>
            LET Unseen(item) == StrOfId(item.id) \notin LoadedSeen(run[p].before)
                unseen == SelectSeq(run[p].all_items, Unseen)
                k == Min(cfg.top_n, Len(unseen))
                lines == run[p].sent.lines
            IN  /\ Len(lines) = k
                /\ k >= 1
                /\ k <= cfg.top_n
                /\ \A i \in 1..Len(lines) :
                      /\ lines[i].title = unseen[i].title
                      /\ lines[i].url = unseen[i].url
                      /\ lines[i].url.n = unseen[i].id
                /\ StrictlyDescending(SentIds(p))
                /\ (/\ run[p].before = PlainDoc("absent")
                    /\ IdsOf(run[p].all_items) = ScenarioIds
                    /\ cfg.top_n = DefaultTopN) =>
                      /\ SentIds(p) = <<107, 106, 105, 104, 103>>
                      /\ run[p].result = "pushed" =>
                            NumbersIn(file) = <<107, 106, 105, 104, 103>>

\* The scenario: the run that found no document and ids 100..107 has pushed
\* and saved.
ScenarioReached ==
    \E p \in Procs :
        /\ run[p].before = PlainDoc("absent")
        /\ IdsOf(run[p].all_items) = ScenarioIds
        /\ cfg.top_n = DefaultTopN
        /\ run[p].result = "pushed"
        /\ Len(run[p].sent.lines) = 5

\* C8: when a delivery failed and the next run extracts the same list (the
\* document is as the failed run left it), the next run selects and sends
\* the batch the failed run sent.
RetrySameBatch ==
    \A p \in Procs :
        (last.result = "post_failed" /\ PastSelect(p)
            /\ run[p].all_items = last.all_items) =>
            /\ run[p].before = last.before
            /\ run[p].selected = last.selected
            /\ run[p].selected # <<>>
            /\ run[p].pc # "selected" =>
                  /\ run[p].posts = 1
                  /\ SentIds(p) = [i \in 1..Len(last.selected) |-> last.selected[i].id]

\* A run that sent again the two items of a batch whose delivery had failed.
RetryReached ==
    \E p \in Procs :
        /\ last.result = "post_failed"
        /\ run[p].all_items = last.all_items
        /\ run[p].posts = 1
        /\ Len(run[p].selected) = 1
        /\ Len(last.all_items) = 2

\* C9: when the fetch raises or the page yields no item, the run ends with
\* exit code 1 as an error (not as "nothing new"), the webhook is not
\* contacted and the state document is left as it was.
FetchFailureExits ==
    \A p \in Procs :
        (run[p].fetches = 1 /\ run[p].all_items = <<>>) =>
            /\ run[p].pc = "exit"
            /\ run[p].code = 1
            /\ run[p].result \in {"fetch_error", "zero_items"}
            /\ run[p].posts = 0
            /\ run[p].writes = 0
            /\ file = run[p].before

\* A run that fetched a page with no item, on a state document listing ids.
ZeroItemsReached ==
    \E p \in Procs :
        /\ run[p].result = "zero_items"
        /\ run[p].fetches = 1
        /\ run[p].before.kind = "object"
        /\ run[p].before.ids # <<>>

\* C10: when the extracted list is not empty and every id of it is in the
\* seen set loaded from the document, the run ends with exit code 0 without
\* contacting the webhook and without writing the document.
NothingNewLeavesState ==
    \A p \in Procs :
        (/\ PastSelect(p)
         /\ \A id \in IdsOf(run[p].all_items) :
               StrOfId(id) \in LoadedSeen(run[p].before)) =>
            /\ run[p].pc = "exit"
            /\ run[p].result = "nothing_new"
            /\ run[p].code = 0
            /\ run[p].posts = 0
            /\ run[p].writes = 0
            /\ file = run[p].before

\* A run that extracted two items, both seen.
NothingNewReached ==
    \E p \in Procs :
        /\ run[p].result = "nothing_new"
        /\ Len(run[p].all_items) = 2
        /\ run[p].posts = 0

\* C11: when FEISHU_WEBHOOK is not set or blank, the run ends with exit code
\* 1 without loading the state document, without a request to the site or
\* to the webhook and without writing; so it does for every TOP_N, 0 and
\* negative values included.
NoWebhookExitsFirst ==
    \A p \in Procs :
        (run[p].pc # "idle" /\ cfg.webhook \in {"unset", "blank"}) =>
            /\ run[p].pc = "exit"
            /\ run[p].result = "no_webhook"
            /\ run[p].code = 1
            /\ run[p].loads = 0
            /\ run[p].fetches = 0
            /\ run[p].posts = 0
            /\ run[p].writes = 0
            /\ file = run[p].before

\* A run that ended on a blank webhook with TOP_N = 0, the state document
\* listing ids.
NoWebhookReached ==
    \E p \in Procs :
        /\ run[p].pc = "exit"
        /\ cfg.webhook = "blank"
        /\ cfg.top_n = 0
        /\ run[p].code = 1
        /\ run[p].before.kind = "object"
        /\ run[p].before.ids # <<>>

\* C12: when the webhook is set and TOP_N <= 0, the run ends with exit code
\* 0 right after the configuration checks: the state document is not
\* loaded, the site and the webhook are not contacted, nothing is written.
TopNDisabledExits ==
    \A p \in Procs :
        (run[p].pc # "idle" /\ cfg.webhook = "hook" /\ cfg.top_n <= 0) =>
            /\ run[p].pc = "exit"
            /\ run[p].result = "top_n"
            /\ run[p].code = 0
            /\ run[p].loads = 0
            /\ run[p].fetches = 0
            /\ run[p].posts = 0
            /\ run[p].writes = 0
            /\ file = run[p].before

\* A run that ended on TOP_N = 0 with the webhook set, the state document
\* listing ids.
TopNDisabledReached ==
    \E p \in Procs :
        /\ run[p].pc = "exit"
        /\ cfg.webhook = "hook"
        /\ cfg.top_n = 0
        /\ run[p].code = 0
        /\ run[p].before.kind = "object"
        /\ run[p].before.ids # <<>>

\* C13: for any document, the list fetch_news returns is strictly
\* descending by id, so no id is in it twice, however many links an id has
\* and in whatever order the links are.
ItemsStrictlyDescending ==
    input.done =>
        /\ StrictlyDescending([i \in 1..Len(input.out) |-> input.out[i].id])
        /\ \A i, j \in 1..Len(input.out) :
              i # j => input.out[i].id # input.out[j].id

\* A document that links id 1, then id 2, then id 1 again, extracted as two
\* items.
DuplicateLinksReached ==
    /\ input.done
    /\ Len(input.arg) = 3
    /\ \A i \in 1..3 : input.arg[i].href.match
    /\ <<input.arg[1].href.n, input.arg[2].href.n, input.arg[3].href.n>>
           = <<1, 2, 1>>
    /\ Len(input.out) = 2

\* The anchors of a document that count as occurrences of an id: the href
\* is a news link with this id and the normalized title is not discarded.
OccurrencesOf(id, anchors, maxLen) ==
    {i \in 1..Len(anchors) :
        /\ anchors[i].href.match
        /\ anchors[i].href.n = id
        /\ LET t == NormalizeTitle(RawTitle(anchors[i]), maxLen)
           IN  t # <<>> /\ ~HasSubstring(t, BoilerplateHub)
                       /\ ~HasSubstring(t, BoilerplateLatest)}

\* C14: for every id that occurs in the document, the item kept is the
\* occurrence with the shortest normalized title among those not
\* discarded, the first in document order among the shortest; under
\* "Short" and "Short and much longer variant" for one id, "Short" is kept
\* in either order.
ShortestTitleKept ==
    input.done =>
        LET Title(i) == NormalizeTitle(RawTitle(input.arg[i]), input.max)
            Occ(id) == OccurrencesOf(id, input.arg, input.max)
            ids == {input.arg[i].href.n : i \in 1..Len(input.arg)}
        IN  /\ \A id \in ids :
                  Occ(id) # {} => \E k \in 1..Len(input.out) : input.out[k].id = id
            /\ \A k \in 1..Len(input.out) :
                  \E i \in Occ(input.out[k].id) :
                      /\ input.out[k].title = Title(i)
                      /\ input.out[k].url = input.arg[i].href
                      /\ \A j \in Occ(input.out[k].id) :
                            /\ Len(Title(j)) >= Len(Title(i))
                            /\ Len(Title(j)) = Len(Title(i)) => i <= j
            /\ (/\ Len(input.arg) = 2
                /\ {input.arg[1].text, input.arg[2].text} = {ShortTitle, LongTitle}
                /\ input.max = DefaultTitleMaxLen) =>
                   /\ Len(input.out) = 1
                   /\ input.out[1].title = ShortTitle

\* Two links of one id with different titles of the same length, the first
\* one kept.
TieReached ==
    /\ input.done
    /\ Len(input.arg) = 2
    /\ input.arg[1] = Anchor(Href(1, FALSE), <<>>, <<"b">>)
    /\ input.arg[2] = Anchor(Href(1, FALSE), <<>>, <<"a">>)
    /\ Len(input.out) = 1
    /\ input.out[1].title = <<"b">>

\* The title with runs of whitespace collapsed and the ends stripped.
WhitespaceNormalized(raw) == Strip(CollapseSpaces(raw))

\* The title up to its first c, the ends stripped.
CutAtFirst(t, c) ==
    LET i == CHOOSE k \in 1..Len(t) : t[k] = c /\ \A j \in 1..(k - 1) : t[j] # c
    IN  Strip(SubSeq(t, 1, i - 1))

\* The first max - 1 characters, trailing whitespace removed, and an
\* ellipsis.
HardTruncated(t, max) == RStrip(SubSeq(t, 1, max - 1)) \o <<Ellipsis>>

\* The example: with TITLE_MAX_LEN = 10 the title of 22 characters is cut
\* to the six characters before its full-width period.
ExampleTitleCut ==
    (input.arg = ExampleTitle /\ input.max = 10) =>
        input.out = <<"a", "a", "a", "a", "a", "a">>

\* C15 as stated: normalize_title applies exactly one of three truncations
\* to a whitespace-normalized title longer than the maximum: the cut at the
\* first full-width period if there is one; else the cut at the first
\* full-width comma if there is one; else the hard truncation.  A title not
\* longer than the maximum is returned unchanged.
ExactlyOneTruncation ==
    input.done =>
        LET t == WhitespaceNormalized(input.arg)
        IN  /\ input.out =
                  IF Len(t) <= input.max THEN t
                  ELSE IF \E i \in 1..Len(t) : t[i] = FullStop
                  THEN CutAtFirst(t, FullStop)
                  ELSE IF \E i \in 1..Len(t) : t[i] = FullComma
                  THEN CutAtFirst(t, FullComma)
                  ELSE HardTruncated(t, input.max)
            /\ ExampleTitleCut

\* C15: normalize_title applies the three truncations one after the other
\* to a whitespace-normalized title, each only when the title as cut so far
\* is still longer than the maximum: the cut at the first full-width period
\* if there is one, then the cut at the first full-width comma if there is
\* one, then the hard truncation to max - 1 characters and an ellipsis.  A
\* title not longer than the maximum is returned unchanged, and no result
\* is longer than the maximum.
TruncationsInSequence ==
    input.done =>
        LET Over(t) == Len(t) > input.max
            Has(t, c) == \E i \in 1..Len(t) : t[i] = c
            t0 == WhitespaceNormalized(input.arg)
            t1 == IF Over(t0) /\ Has(t0, FullStop) THEN CutAtFirst(t0, FullStop) ELSE t0
            t2 == IF Over(t1) /\ Has(t1, FullComma) THEN CutAtFirst(t1, FullComma) ELSE t1
            t3 == IF Over(t2) THEN HardTruncated(t2, input.max) ELSE t2
        IN  /\ input.out = t3
            /\ ~Over(t0) => input.out = t0
            /\ Len(input.out) <= input.max
            /\ ExampleTitleCut

\* A title cut at its full-width period, then at its full-width comma and
\* then truncated.
ThreeTruncationsReached ==
    /\ input.done
    /\ input.arg = <<"a", "a", FullComma, FullStop, "a">>
    /\ input.max = 1
    /\ input.out = <<Ellipsis>>

\* C16: when the document a run loaded is a JSON object and the run
\* delivered and saved, the saved document is an object with every field
\* other than seen_ids as it was; only seen_ids is replaced.
UnknownFieldsPreserved ==
    \A p \in Procs :
        (run[p].result = "pushed" /\ run[p].before.kind = "object") =>
            /\ file.kind = "object"
            /\ file.field = "list"
            /\ file.other = run[p].before.other

\* A run that pushed and rewrote a document holding seen_ids and another
\* field.
UnknownFieldsReached ==
    \E p \in Procs :
        /\ run[p].result = "pushed"
        /\ run[p].before.kind = "object"
        /\ run[p].before.ids # <<>>
        /\ run[p].before.other = {"note"}
        /\ file # run[p].before

\* The strings a run may write: those it loaded and those of its batch.
OwnStrings(p) ==
    LoadedSeen(run[p].before)
    \cup {StrOfId(run[p].selected[i].id) : i \in 1..Len(run[p].selected)}

\* The document is the one run p wrote from what it loaded and pushed.
WrittenBy(p) ==
    LET strings == {StrOf(file.ids[i]) : i \in 1..Len(file.ids)}
    IN  /\ run[p].result = "pushed"
        /\ file.kind = "object"
        /\ file.field = "list"
        /\ file.other = LoadState(run[p].before).other
        /\ strings \subseteq OwnStrings(p)
        /\ Cardinality(OwnStrings(p)) <= cfg.max_seen => strings = OwnStrings(p)

\* C17: runs are not serialized, and a run that saves writes the seen set
\* it loaded at its start plus its own batch, whatever the document holds
\* by then: once a run has saved, the document is the document of one run
\* alone (the last saver).  So when two runs load before either saves, both
\* can deliver the same item and the ids the first saver added are lost.
LastSaverWins ==
    (\E p \in Procs : run[p].writes > 0) => \E p \in Procs : WrittenBy(p)

\* Two runs that both loaded the empty state before either saved: both
\* delivered id 2, and id 1, delivered and saved by one of them, is not in
\* the document the other wrote last.
LostUpdateReached ==
    \E p, q \in Procs :
        /\ p # q
        /\ run[p].result = "pushed"
        /\ run[q].result = "pushed"
        /\ run[p].before = PlainDoc("absent")
        /\ run[q].before = PlainDoc("absent")
        /\ cfg.max_seen = MaxSeenCap
        /\ IdsOf(run[p].selected) = {2}
        /\ IdsOf(run[q].selected) = {1, 2}
        /\ NumbersIn(file) = <<2>>

\* The strings of the seen_ids array of the document.
SavedStrings == {StrOf(file.ids[i]) : i \in 1..Len(file.ids)}

\* C18 as stated: after a run whose delivery succeeded and that returned 0,
\* every id of the delivered batch is in seen_ids of the saved document.
DeliveredIdsSaved ==
    \A p \in Procs :
        (run[p].result = "pushed" /\ run[p].code = 0) =>
            \A id \in IdsOf(run[p].selected) : StrOfId(id) \in SavedStrings

\* C18: after a run whose delivery succeeded and that returned 0, an id of
\* the delivered batch is in seen_ids of the saved document whenever no
\* more than MAX_SEEN_IDS entries of the run's seen set (the loaded ones and
\* the batch) are numerically at least as large as it; so is every id of
\* the batch when the seen set has no more than MAX_SEEN_IDS entries.
DeliveredIdsSavedUnlessCut ==
    \A p \in Procs :
        (run[p].result = "pushed" /\ run[p].code = 0) =>
            /\ run[p].writes = 1
            /\ \A id \in IdsOf(run[p].selected) :
                  Cardinality({s \in OwnStrings(p) : IntOf(s) >= id}) <= cfg.max_seen
                      => StrOfId(id) \in SavedStrings

\* A run that delivered two ids and saved both next to a loaded one.
DeliveredIdsSavedReached ==
    \E p \in Procs :
        /\ run[p].result = "pushed"
        /\ Len(run[p].selected) = 2
        /\ run[p].before.ids # <<>>
        /\ Len(file.ids) = 3
        /\ \A id \in IdsOf(run[p].selected) : StrOfId(id) \in SavedStrings

\* C19: on a listing page that stays the same, with every delivery
\* acknowledged, TOP_N >= 1 and MAX_SEEN_IDS at least the size of the seen
\* set plus the number of listed ids, the runs drain the backlog: the batch
\* of a run is never empty, holds no id pushed before, and is the TOP_N
\* largest (or all) of the listed ids the document does not hold, in
\* descending order; so each unseen id is delivered once, after at most
\* ceil(k / TOP_N) delivering runs no run selects anything.
BacklogDrains ==
    \A p \in Procs :
        (/\ run[p].pc = "selected"
         /\ cfg.top_n >= 1
         /\ cfg.max_seen >= Cardinality(LoadedSeen(run[p].before))
                               + Cardinality(universe)) =>
            LET unseen == {id \in universe :
                              StrOfId(id) \notin LoadedSeen(run[p].before)}
                ids == [i \in 1..Len(run[p].selected) |-> run[p].selected[i].id]
            IN  /\ run[p].selected # <<>>
                /\ Len(run[p].selected) <= cfg.top_n
                /\ StrictlyDescending(ids)
                /\ IdsOf(run[p].selected) = LargestOf(unseen, cfg.top_n)
                /\ IdsOf(run[p].selected) \cap pushed = {}

=============================================================================
